---- MODULE Spec2Model ----
(***************************************************************************)
(* Model of update-home-ip.mjs: PublicIPResolver (getPublicIP,             *)
(* isValidIPv4) and OpenProviderDNSUpdater (makeRequest, authenticate,     *)
(* updateDNSRecord), run against a remote OpenProvider zone store and      *)
(* three IP lookup services.                                               *)
(*                                                                         *)
(* JavaScript strings are sequences of one-character strings, so that the  *)
(* regular expression, split, trim and parseInt act on characters.  Other  *)
(* JavaScript values are tagged records [t, s] where s is the value's      *)
(* String() coercion.                                                      *)
(***************************************************************************)
EXTENDS Integers, Sequences, FiniteSets, TLC

\* ------------------------------------------------------------------------
\* JavaScript values
\* ------------------------------------------------------------------------

Str(chars) == [t |-> "string", s |-> chars]

Undefined == [t |-> "undefined", s |-> <<"u","n","d","e","f","i","n","e","d">>]

\* a one-element array [x]: String([x]) is String(x)
ArrayOf(chars) == [t |-> "array", s |-> chars]

Num(chars) == [t |-> "number", s |-> chars]

\* String(v), the coercion RegExp.prototype.test and template literals apply
ToStr(v) == v.s

\* !v for the values of the model
Falsy(v) == v.t = "undefined" \/ (v.t = "string" /\ v.s = <<>>)

Digits == {"0","1","2","3","4","5","6","7","8","9"}

DigitVal(c) ==
  CASE c = "0" -> 0 [] c = "1" -> 1 [] c = "2" -> 2 [] c = "3" -> 3
    [] c = "4" -> 4 [] c = "5" -> 5 [] c = "6" -> 6 [] c = "7" -> 7
    [] c = "8" -> 8 [] c = "9" -> 9

\* ------------------------------------------------------------------------
\* PublicIPResolver.isValidIPv4
\* ------------------------------------------------------------------------

\* positions reachable from position i of s by consuming \d{1,3}
DigitRun(s, i) ==
  { j \in (i + 1)..(i + 3) :
      /\ j <= Len(s) + 1
      /\ \A k \in i..(j - 1) : s[k] \in Digits }

\* positions reachable from a position of P by consuming \d{1,3}\.
GroupStep(s, P) ==
  { j + 1 : j \in { q \in UNION { DigitRun(s, i) : i \in P } :
                      q <= Len(s) /\ s[q] = "." } }

\* positions reachable from position i of s by consuming \d+
DigitRun_AnyLength(s, i) ==
  { j \in (i + 1)..(Len(s) + 1) : \A k \in i..(j - 1) : s[k] \in Digits }

GroupStep_AnyLength(s, P) ==
  { j + 1 : j \in { q \in UNION { DigitRun_AnyLength(s, i) : i \in P } :
                      q <= Len(s) /\ s[q] = "." } }

\* the expression with \d+ in place of \d{1,3}
ipv4Regex_AnyLength(s) ==
  LET P3 == GroupStep_AnyLength(s, GroupStep_AnyLength(s, GroupStep_AnyLength(s, {1})))
  IN  (Len(s) + 1) \in UNION { DigitRun_AnyLength(s, i) : i \in P3 }

\* /^(\d{1,3}\.){3}\d{1,3}$/.test(s)
ipv4Regex(s) ==
  LET P3 == GroupStep(s, GroupStep(s, GroupStep(s, {1})))
  IN  (Len(s) + 1) \in UNION { DigitRun(s, i) : i \in P3 }

RECURSIVE SplitFrom(_, _, _)
\* s.split('.') from position i on, cur being the part read so far
SplitFrom(s, i, cur) ==
  IF i > Len(s) THEN <<cur>>
  ELSE IF s[i] = "." THEN <<cur>> \o SplitFrom(s, i + 1, <<>>)
  ELSE SplitFrom(s, i + 1, Append(cur, s[i]))

split(s) == SplitFrom(s, 1, <<>>)

RECURSIVE parseIntFrom(_, _, _)
\* Number.parseInt(part, 10) on a string of digits: the longest digit prefix
parseIntFrom(part, i, acc) ==
  IF i > Len(part) \/ part[i] \notin Digits THEN acc
  ELSE parseIntFrom(part, i + 1, acc * 10 + DigitVal(part[i]))

\* NaN is modelled as -1: every comparison the code makes with it is false
parseInt(part) ==
  IF part = <<>> \/ part[1] \notin Digits THEN -1 ELSE parseIntFrom(part, 1, 0)

\* isValidIPv4 without the range check on the parts
isValidIPv4_NoRange(s) == ipv4Regex(s)

\* isValidIPv4 on a string
isValidIPv4(s) ==
  IF ~ipv4Regex(s) THEN FALSE
  ELSE LET parts == [k \in DOMAIN split(s) |-> parseInt(split(s)[k])]
       IN  \A k \in DOMAIN parts : parts[k] >= 0 /\ parts[k] <= 255

\* ------------------------------------------------------------------------
\* Strings and values the inputs are drawn from
\* ------------------------------------------------------------------------

IP_A == <<"1",".","2",".","3",".","4">>

IP_B == <<"5",".","6",".","7",".","8">>

\* an out-of-range candidate
IP_256 == <<"2","5","6",".","1",".","1",".","1">>

\* a plain-text body with surrounding whitespace
IP_A_PADDED == <<" ">> \o IP_A \o <<"\n">>

GARBAGE == <<"o","o","p","s">>

Whitespace == {" ", "\n", "\t", "\r"}

RECURSIVE trimStart(_)
trimStart(s) ==
  IF s # <<>> /\ Head(s) \in Whitespace THEN trimStart(Tail(s)) ELSE s

RECURSIVE trimEnd(_)
trimEnd(s) ==
  IF s # <<>> /\ s[Len(s)] \in Whitespace
  THEN trimEnd(SubSeq(s, 1, Len(s) - 1)) ELSE s

\* String.prototype.trim
trim(s) == trimEnd(trimStart(s))

\* ------------------------------------------------------------------------
\* Errors
\* ------------------------------------------------------------------------

\* an Error object: its class, its message (a fixed text and the value
\* interpolated in it), and for the aggregate error of getPublicIP the
\* messages joined in it
MkError(name, text, arg) ==
  [name |-> name, text |-> text, arg |-> arg, detail |-> <<>>]

NoError == MkError("none", "", <<>>)

\* e.message
Message(e) == [text |-> e.text, arg |-> e.arg]

\* ------------------------------------------------------------------------
\* IP lookup services
\* ------------------------------------------------------------------------

\* this.IP_SERVICES.length
NumServices == 3

\* IP_SERVICES[i].parser: "ip" is data => data.ip, "trim" is data => data.trim()
ServiceParser(i) == IF i = 2 THEN "trim" ELSE "ip"

\* What one GET of a lookup service can produce:
\*   neterr   fetch rejects
\*   httperr  response.ok is false
\*   jsonobj  content-type application/json, body an object whose ip is val
\*   jsonnull content-type application/json, body null
\*   jsonbad  content-type application/json, body not parsable
\*   text     any other content-type, body the string val
LookupResponses ==
  { [kind |-> "neterr",   val |-> Undefined],
    [kind |-> "httperr",  val |-> Undefined],
    [kind |-> "jsonobj",  val |-> Str(IP_A)],
    [kind |-> "jsonobj",  val |-> Str(IP_B)],
    [kind |-> "jsonobj",  val |-> Str(IP_256)],
    [kind |-> "jsonobj",  val |-> Undefined],
    [kind |-> "jsonobj",  val |-> ArrayOf(IP_A)],
    [kind |-> "jsonnull", val |-> Undefined],
    [kind |-> "jsonbad",  val |-> Undefined],
    [kind |-> "text",     val |-> Str(IP_A_PADDED)],
    [kind |-> "text",     val |-> Str(IP_B)],
    [kind |-> "text",     val |-> Str(GARBAGE)] }

\* the lookup responses of the specification of the reconciler: an address
\* in a JSON document and an address in plain text, each a failure for the
\* services whose extraction rule expects the other
CoreLookupResponses ==
  { [kind |-> "jsonobj",  val |-> Str(IP_A)],
    [kind |-> "text",     val |-> Str(IP_B)] }

\* The body of the try block of getPublicIP for service i and response r:
\* [ok |-> TRUE, ip |-> the value returned] or [ok |-> FALSE, error |-> the
\* error thrown into the catch block]
TryService(i, r) ==
  LET fail(e) == [ok |-> FALSE, ip |-> Undefined, error |-> e]
      check(ip) ==
        \* this.isValidIPv4(ip): test coerces ip, split needs a string
        IF ip.t # "string" /\ ipv4Regex(ToStr(ip))
          THEN fail(MkError("TypeError", "ip.split is not a function", <<>>))
        ELSE IF isValidIPv4(ToStr(ip))
          THEN [ok |-> TRUE, ip |-> ip, error |-> NoError]
        ELSE fail(MkError("Error", "Invalid IP address format: ", ToStr(ip)))
  IN
  CASE r.kind = "neterr"  -> fail(MkError("TypeError", "fetch failed", <<>>))
    [] r.kind = "httperr" -> fail(MkError("Error", "HTTP error! status: ", <<"5","0","0">>))
    [] r.kind = "jsonbad" -> fail(MkError("SyntaxError", "Unexpected token", <<>>))
    [] r.kind = "jsonnull" ->
         IF ServiceParser(i) = "ip"
         THEN fail(MkError("TypeError", "Cannot read properties of null (reading 'ip')", <<>>))
         ELSE fail(MkError("TypeError", "Cannot read properties of null (reading 'trim')", <<>>))
    [] r.kind = "jsonobj" ->
         IF ServiceParser(i) = "ip" THEN check(r.val)
         ELSE fail(MkError("TypeError", "data.trim is not a function", <<>>))
    [] r.kind = "text" ->
         IF ServiceParser(i) = "ip" THEN check(Undefined)
         ELSE check(Str(trim(r.val.s)))

\* the aggregate error carrying the last failure only
AllServicesFailed_LastOnly(errors) ==
  [name |-> "Error", text |-> "Failed to get public IP from all services. Errors: ",
   arg |-> <<>>,
   detail |-> <<Message(errors[Len(errors)])>>]

\* the error thrown after the loop
AllServicesFailed(errors) ==
  [name |-> "Error", text |-> "Failed to get public IP from all services. Errors: ",
   arg |-> <<>>,
   detail |-> [k \in DOMAIN errors |-> Message(errors[k])]]

\* ------------------------------------------------------------------------
\* The remote DNS provider
\* ------------------------------------------------------------------------

DOMAIN_NAME == "example.com"

\* a second zone the name_pattern query also returns
OTHER_DOMAIN == "myexample.com"

SUBDOMAIN == "home"

\* a ttl field that is absent from the record
NoTtl == -1

MkRecord(name, type, value, ttl, prio) ==
  [name |-> name, type |-> type, value |-> value, ttl |-> ttl, prio |-> prio]

\* a configuration value that is not set: process.env.X is undefined
UNSET == "<unset>"

\* `${v}` for a string or undefined
TemplateStr(v) == IF v = UNSET THEN "undefined" ELSE v

\* `${subdomain}.${domain}`
FullName(subdomain, domain) == TemplateStr(subdomain) \o "." \o TemplateStr(domain)

\* the records a zone is built from
RecordPool ==
  { MkRecord(FullName(SUBDOMAIN, DOMAIN_NAME), "A",    Str(IP_A),  300,   Undefined),
    MkRecord(FullName(SUBDOMAIN, DOMAIN_NAME), "A",    Str(IP_B),  NoTtl, Num(<<"0">>)),
    MkRecord(FullName(SUBDOMAIN, DOMAIN_NAME), "A",    Undefined,  0,     Undefined),
    MkRecord(FullName(SUBDOMAIN, DOMAIN_NAME), "AAAA", Str(IP_A),  300,   Undefined),
    MkRecord(FullName("www", DOMAIN_NAME),     "A",    Str(IP_A),  600,   Undefined) }

\* the largest number of records of a zone at the start
MaxRecords == 2

RecordLists == UNION { [1..n -> RecordPool] : n \in 0..MaxRecords }

MkZone(id, name, records) == [id |-> id, name |-> name, records |-> records]

OtherZone == MkZone(7, OTHER_DOMAIN, <<>>)

\* the zones of the account: none, the other zone alone, or the other zone
\* followed by the target zone
ZoneLists ==
  { <<>>, <<OtherZone>> }
    \cup { <<OtherZone, MkZone(1, DOMAIN_NAME, rs)>> : rs \in RecordLists }

\* Array.prototype.find over the indices S of the elements that satisfy the
\* callback: the first of them, 0 (undefined) if there is none
FirstIndex(S) ==
  IF S = {} THEN 0 ELSE CHOOSE k \in S : \A j \in S : k <= j

\* ------------------------------------------------------------------------
\* Requests and payloads
\* ------------------------------------------------------------------------

\* the body of a request; add and update are empty when the key is absent
MkBody(id, name, add, update) ==
  [id |-> id, name |-> name, add |-> add, update |-> update]

NoBody == MkBody(Undefined, "", <<>>, <<>>)

\* the response of a request that has not completed
Pending == [kind |-> "pending", val |-> Undefined]

\* a request and, once it has completed, what came back
MkRequest(kind, svc, body) ==
  [kind |-> kind, svc |-> svc, body |-> body, resp |-> Pending]

\* the trace once its last request has completed with response r
Reply(tr, r) == [tr EXCEPT ![Len(tr)].resp = r]

ApiReply(tr, r) == Reply(tr, [kind |-> r, val |-> Undefined])

LoginRequest == MkRequest("LOGIN", 0, NoBody)

LookupRequest(i) == MkRequest("LOOKUP", i, NoBody)

ZonesRequest == MkRequest("ZONES", 0, NoBody)

PutRequest(body) == MkRequest("PUT", 0, body)

\* record?.ttl || 900
TtlOrDefault(ttl) == IF ttl = NoTtl \/ ttl = 0 THEN 900 ELSE ttl

\* the update payload whose replacement keeps the record's value
UpdateBody_OldValue(domain, subdomain, record, ip) ==
  MkBody(Undefined, domain, <<>>,
    << [original_record |->
          [name |-> subdomain, prio |-> record.prio,
           ttl |-> IF record.ttl = NoTtl \/ record.ttl = 0 THEN 900 ELSE record.ttl,
           type |-> "A",
           value |-> IF Falsy(record.value) THEN ip ELSE record.value],
        record |->
          [name |-> subdomain, type |-> "A", value |-> record.value,
           ttl |-> IF record.ttl = NoTtl \/ record.ttl = 0 THEN 900 ELSE record.ttl,
           prio |-> Undefined]] >>)

\* updateExistingRecordData (record.id is absent from the records of the API)
UpdateBody(domain, subdomain, record, ip) ==
  MkBody(Undefined, domain, <<>>,
    << [original_record |->
          [name |-> subdomain, prio |-> record.prio,
           ttl |-> TtlOrDefault(record.ttl), type |-> "A",
           value |-> IF Falsy(record.value) THEN ip ELSE record.value],
        record |->
          [name |-> subdomain, type |-> "A", value |-> ip,
           ttl |-> TtlOrDefault(record.ttl), prio |-> Undefined]] >>)

\* the add payload named by the full name of the record
CreateBody_FullName(domain, subdomain, ip) ==
  MkBody(Undefined, domain,
    << [name |-> subdomain \o "." \o domain, type |-> "A", value |-> ip,
        ttl |-> 900, prio |-> Undefined] >>,
    <<>>)

\* recordData, built when record is undefined
CreateBody(domain, subdomain, ip) ==
  MkBody(Undefined, domain,
    << [name |-> subdomain, type |-> "A", value |-> ip,
        ttl |-> TtlOrDefault(NoTtl), prio |-> Undefined] >>,
    <<>>)

\* ------------------------------------------------------------------------
\* The zone-mutate endpoint: PUT /v1beta/dns/zones/{name}
\* ------------------------------------------------------------------------

\* results.find(item => item.name === domain)
ZoneIndex(zs, name) == FirstIndex({k \in DOMAIN zs : zs[k].name = name})

\* the full name of a record whose body gives the name n relative to the
\* zone; a body without a name (JSON.stringify drops an undefined member)
\* names the zone itself
RemoteName(n, zoneName) == IF n = UNSET THEN zoneName ELSE FullName(n, zoneName)

\* the record of rs an original_record block designates, 0 if none
OriginalIndex(rs, zoneName, orig) ==
  FirstIndex({k \in DOMAIN rs : /\ rs[k].name = RemoteName(orig.name, zoneName)
                                /\ rs[k].type = orig.type
                                /\ rs[k].value = orig.value})

\* the provider can apply the body: the zone exists and every
\* original_record designates a record of it
Applicable(zs, name, body) ==
  /\ ZoneIndex(zs, name) # 0
  /\ \A k \in DOMAIN body.update :
       OriginalIndex(zs[ZoneIndex(zs, name)].records, name, body.update[k].original_record) # 0

RECURSIVE ApplyUpdates(_, _, _, _)
ApplyUpdates(rs, zoneName, ups, k) ==
  IF k > Len(ups) THEN rs
  ELSE LET i == OriginalIndex(rs, zoneName, ups[k].original_record)
           n == ups[k].record
       IN  ApplyUpdates(
             [rs EXCEPT ![i] = MkRecord(RemoteName(n.name, zoneName), n.type, n.value, n.ttl, n.prio)],
             zoneName, ups, k + 1)

\* the zones after the provider has applied the body
ApplyBody(zs, name, body) ==
  LET zi == ZoneIndex(zs, name)
      added == [k \in DOMAIN body.add |->
                  MkRecord(RemoteName(body.add[k].name, name), body.add[k].type,
                           body.add[k].value, body.add[k].ttl, body.add[k].prio)]
  IN  [zs EXCEPT ![zi].records = ApplyUpdates(@, name, body.update, 1) \o added]

\* ------------------------------------------------------------------------
\* State
\* ------------------------------------------------------------------------

VARIABLES
  token,        \* this.token
  zones,        \* the provider's zones, as the zone query returns them
  pc,           \* where updateDNSRecord is: idle, login, lookup, query, mutate, returned, thrown
  args,         \* the arguments of the running invocation
  ipToUse,      \* const ipToUse
  svc,          \* the index of the service the for loop of getPublicIP is at
  errors,       \* const errors of getPublicIP
  trace,        \* the requests the running invocation has issued, in order
  inflight,     \* the number of requests awaiting their response
  branch,       \* the branch the running invocation took: none, NoOp, Update, Create
  err,          \* the error the running invocation threw to its caller
  records,      \* const records = zoneInfo.records
  invocations,  \* the number of invocations started
  prev,         \* what the previous invocation did
  candidate,    \* the argument of a call of isValidIPv4 made on its own
  verdict,      \* what that call returned, "none" before it
  logins,       \* the number of login requests the updater has issued
  env,          \* process.env: the four configuration values
  exitCode      \* the exit code of the process, Running while it runs

vars == <<token, zones, pc, args, ipToUse, svc, errors, trace, inflight,
          branch, err, records, invocations, prev, candidate, verdict,
          logins, env, exitCode>>

\* the number of invocations of updateDNSRecord on one updater
MaxInvocations == 2

\* the domain argument
Domains == {DOMAIN_NAME}

Subdomains == {SUBDOMAIN}

\* the newIp argument: absent, an address, or a string that is no address
ExplicitIPs == {Undefined, Str(IP_A), Str(GARBAGE)}

TOKEN == Str(<<"t","o","k">>)

\* What one request to the provider's API can produce:
\*   neterr   fetch rejects
\*   httperr  response.ok is false, the body is a JSON error document
\*   ok       response.ok, a JSON body of the documented shape
\*   nodata   response.ok, a JSON body without the data member
\*   notoken  response.ok, a JSON body whose data has no token (login only)
\*   notjson  response.ok, the body is not JSON
ApiResponses == {"neterr", "httperr", "ok", "nodata", "notoken", "notjson"}

\* the error makeRequest throws for a response that is not usable, NoError otherwise
makeRequestError(r) ==
  CASE r = "neterr"  -> MkError("TypeError", "fetch failed", <<>>)
    [] r = "httperr" -> MkError("Error", "API request failed: ", <<"{","}">>)
    [] r = "notjson" -> MkError("SyntaxError", "Unexpected token", <<>>)
    [] OTHER -> NoError

NoArgs == [domain |-> "", subdomain |-> "", newIp |-> Undefined]

NoPrev == [domain |-> "", subdomain |-> "", ip |-> Undefined, pc |-> "idle",
           branch |-> "none", puts |-> 0]

\* the number of mutating requests in a trace
NumPuts(tr) == Cardinality({k \in DOMAIN tr : tr[k].kind = "PUT"})

MkEnv(username, password, domain, subdomain) ==
  [username |-> username, password |-> password,
   domain |-> domain, subdomain |-> subdomain]

\* the environments main is started in: each value set or not set
Envs ==
  { MkEnv(u, p, d, sd) : u \in {UNSET, "user"}, p \in {UNSET, "", "secret"},
                         d \in {UNSET, DOMAIN_NAME}, sd \in {UNSET, SUBDOMAIN} }

\* !v for a value of process.env
EnvMissing(v) == v = UNSET \/ v = ""

\* exitCode while the process has not exited
Running == -1

\* the environment with the four values set
FullEnv == MkEnv("user", "secret", DOMAIN_NAME, SUBDOMAIN)

\* authenticate called whether or not a token is held
NeedsLogin_Always(tok) == TRUE

\* if (!this.token)
NeedsLogin(tok) == Falsy(tok)

\* the updater after construction, no call made yet
InitUpdater ==
  /\ token = Undefined
  /\ zones \in ZoneLists
  /\ pc = "idle"
  /\ args = NoArgs
  /\ ipToUse = Undefined
  /\ svc = 0
  /\ errors = <<>>
  /\ trace = <<>>
  /\ inflight = 0
  /\ branch = "none"
  /\ err = NoError
  /\ records = <<>>
  /\ invocations = 0
  /\ prev = NoPrev
  /\ verdict = "none"
  /\ logins = 0
  /\ exitCode = Running

Init ==
  /\ InitUpdater
  /\ candidate = <<>>
  /\ env = FullEnv

\* ------------------------------------------------------------------------
\* updateDNSRecord, step by step
\* ------------------------------------------------------------------------

\* the rejection reaches the caller of updateDNSRecord
Throw(e) ==
  /\ pc' = "thrown"
  /\ err' = e
  /\ inflight' = 0
  /\ errors' = <<>>
  /\ svc' = 0

\* fetch called twice with the request, the two calls running concurrently
Send_Twice(tr, req) ==
  /\ trace' = Append(Append(tr, req), req)
  /\ inflight' = 2

\* fetch is called with the request
Send(tr, req) ==
  /\ trace' = Append(tr, req)
  /\ inflight' = 1

\* the resolver consulted whether or not newIp is given
BeginTry_AlwaysResolve(newIp, tr) ==
  /\ ipToUse' = Undefined
  /\ svc' = 1
  /\ pc' = "lookup"
  /\ trace' = Append(tr, LookupRequest(1))
  /\ inflight' = 1

\* const ipToUse = newIp || await this.ipResolver.getPublicIP(), up to the
\* first request: the zone query when newIp is given, the first lookup otherwise
BeginTry(newIp, tr) ==
  IF ~Falsy(newIp)
  THEN /\ ipToUse' = newIp
       /\ svc' = 0
       /\ pc' = "query"
       /\ Send(tr, ZonesRequest)
  ELSE /\ ipToUse' = Undefined
       /\ svc' = 1
       /\ pc' = "lookup"
       /\ Send(tr, LookupRequest(1))

\* updateDNSRecord(domain, subdomain, newIp) is called and runs to its first await
Invoke(d, sd, newIp) ==
  /\ pc \in {"idle", "returned", "thrown"}
  /\ invocations < MaxInvocations
  /\ invocations' = invocations + 1
  /\ prev' = IF pc = "idle" THEN prev
             ELSE [domain |-> args.domain, subdomain |-> args.subdomain,
                   ip |-> ipToUse, pc |-> pc, branch |-> branch,
                   puts |-> NumPuts(trace)]
  /\ args' = [domain |-> d, subdomain |-> sd, newIp |-> newIp]
  /\ err' = NoError
  /\ branch' = "none"
  /\ errors' = <<>>
  /\ records' = <<>>
  /\ IF NeedsLogin(token)
     THEN /\ pc' = "login"
          /\ Send(<<>>, LoginRequest)
          /\ logins' = logins + 1
          /\ ipToUse' = Undefined
          /\ svc' = 0
     ELSE /\ BeginTry(newIp, <<>>)
          /\ UNCHANGED logins
  /\ UNCHANGED <<token, zones, candidate, verdict, env, exitCode>>

\* authenticate whose catch block logs the error without rethrowing it
LoginResponse_Swallow(r) ==
  /\ pc = "login"
  /\ token' = IF r = "ok" THEN TOKEN ELSE Undefined
  /\ BeginTry(args.newIp, ApiReply(trace, r))
  /\ UNCHANGED <<errors, err>>
  /\ UNCHANGED <<zones, args, branch, records, invocations, prev, candidate, verdict,
                 logins, env, exitCode>>

\* the login request completes: authenticate
LoginResponse(r) ==
  /\ pc = "login"
  /\ IF r \in {"ok", "notoken"}
     THEN /\ token' = IF r = "ok" THEN TOKEN ELSE Undefined
          /\ BeginTry(args.newIp, ApiReply(trace, r))
          /\ UNCHANGED <<errors, err>>
     ELSE /\ Throw(IF r = "nodata"
                   THEN MkError("TypeError", "Cannot read properties of undefined (reading 'token')", <<>>)
                   ELSE makeRequestError(r))
          /\ trace' = ApiReply(trace, r)
          /\ UNCHANGED <<token, ipToUse>>
  /\ UNCHANGED <<zones, args, branch, records, invocations, prev, candidate, verdict,
               logins, env, exitCode>>

\* the loop that returns only after the last service
AfterAttempt_TryAll(res, i) ==
  IF i < NumServices THEN "next"
  ELSE IF res.ok THEN "return"
  ELSE "throw"

\* the loop without its catch block: the first failure leaves getPublicIP
AfterAttempt_NoCatch(res, i) ==
  IF res.ok THEN "return" ELSE "throw"

\* what follows the attempt of service i: "return" the address, try the
\* "next" service, or "throw" after the last one
AfterAttempt(res, i) ==
  IF res.ok THEN "return"
  ELSE IF i < NumServices THEN "next"
  ELSE "throw"

\* getPublicIP wrapped in a retry loop: after the last service has failed
\* the list is tried again from its first service
LookupResponse_RetryForever(r) ==
  /\ pc = "lookup"
  /\ LET res == TryService(svc, r)
         es  == Append(errors, res.error)
         nxt == AfterAttempt(res, svc)
     IN  CASE nxt = "return" ->
                /\ ipToUse' = res.ip
                /\ errors' = <<>>
                /\ svc' = 0
                /\ pc' = "query"
                /\ Send(Reply(trace, r), ZonesRequest)
                /\ UNCHANGED err
           [] nxt = "next" ->
                /\ errors' = es
                /\ svc' = svc + 1
                /\ Send(Reply(trace, r), LookupRequest(svc + 1))
                /\ UNCHANGED <<pc, ipToUse, err>>
           [] nxt = "throw" ->
                /\ errors' = <<>>
                /\ svc' = 1
                /\ Send(Reply(trace, r), LookupRequest(1))
                /\ UNCHANGED <<pc, ipToUse, err>>
  /\ UNCHANGED <<token, zones, args, branch, records, invocations, prev, candidate, verdict,
               logins, env, exitCode>>

\* the request to lookup service svc completes: one iteration of getPublicIP
LookupResponse(r) ==
  /\ pc = "lookup"
  /\ LET res == TryService(svc, r)
         es  == Append(errors, res.error)
         nxt == AfterAttempt(res, svc)
     IN  CASE nxt = "return" ->
                /\ ipToUse' = res.ip
                /\ errors' = <<>>
                /\ svc' = 0
                /\ pc' = "query"
                /\ Send(Reply(trace, r), ZonesRequest)
                /\ UNCHANGED err
           [] nxt = "next" ->
                /\ errors' = es
                /\ svc' = svc + 1
                /\ Send(Reply(trace, r), LookupRequest(svc + 1))
                /\ UNCHANGED <<pc, ipToUse, err>>
           [] nxt = "throw" ->
                /\ Throw(AllServicesFailed(es))
                /\ trace' = Reply(trace, r)
                /\ UNCHANGED ipToUse
  /\ UNCHANGED <<token, zones, args, branch, records, invocations, prev, candidate, verdict,
               logins, env, exitCode>>

\* the search that compares the name only
RecordIndex_AnyType(recs, subdomain, domain) ==
  FirstIndex({k \in DOMAIN recs : recs[k].name = FullName(subdomain, domain)})

\* records.find(r => r.name === `${subdomain}.${domain}` && r.type === 'A')
RecordIndex(recs, subdomain, domain) ==
  FirstIndex({k \in DOMAIN recs :
                recs[k].name = FullName(subdomain, domain) /\ recs[k].type = "A"})

\* the decision without the comparison of the record's value
Decide_AlwaysWrite(recs, ri, ip) ==
  IF ri # 0 THEN "Update" ELSE "Create"

\* the branch taken for the record found (index ri of records, 0 if none)
Decide(recs, ri, ip) ==
  IF ri # 0 /\ recs[ri].value = ip THEN "NoOp"
  ELSE IF ri # 0 THEN "Update"
  ELSE "Create"

\* the zone query completes: the decision, and the mutating request if any
QueryResponse(r) ==
  /\ pc = "query"
  /\ r # "notoken"
  /\ IF r # "ok"
     THEN /\ Throw(IF r = "nodata"
                   THEN MkError("TypeError", "Cannot read properties of undefined (reading 'results')", <<>>)
                   ELSE makeRequestError(r))
          /\ trace' = ApiReply(trace, r)
          /\ UNCHANGED <<branch, records>>
     ELSE LET zi == ZoneIndex(zones, args.domain) IN
          IF zi = 0
          THEN /\ Throw(MkError("TypeError", "Cannot read properties of undefined (reading 'id')", <<>>))
               /\ trace' = ApiReply(trace, r)
               /\ UNCHANGED <<branch, records>>
          ELSE LET recs == zones[zi].records
                   ri == RecordIndex(recs, args.subdomain, args.domain)
                   br == Decide(recs, ri, ipToUse)
               IN  /\ records' = recs
                   /\ branch' = br
                   /\ UNCHANGED <<errors, svc, err>>
                   /\ CASE br = "NoOp" ->
                             /\ pc' = "returned"
                             /\ inflight' = 0
                             /\ trace' = ApiReply(trace, r)
                        [] br = "Update" ->
                             /\ pc' = "mutate"
                             /\ Send(ApiReply(trace, r),
                                     PutRequest(UpdateBody(args.domain, args.subdomain, recs[ri], ipToUse)))
                        [] br = "Create" ->
                             /\ pc' = "mutate"
                             /\ Send(ApiReply(trace, r),
                                     PutRequest(CreateBody(args.domain, args.subdomain, ipToUse)))
  /\ UNCHANGED <<token, zones, args, ipToUse, invocations, prev, candidate, verdict,
               logins, env, exitCode>>

\* the update branch falling through into the create branch: once the update
\* has completed, the add request is issued as well
MutateResponse_FallThrough(r) ==
  /\ pc = "mutate"
  /\ r \in {"neterr", "httperr", "ok", "notjson"}
  /\ LET body == trace[Len(trace)].body IN
     IF r \in {"neterr", "httperr"}
     THEN /\ Throw(makeRequestError(r))
          /\ trace' = ApiReply(trace, r)
          /\ UNCHANGED zones
     ELSE /\ Applicable(zones, args.domain, body)
          /\ zones' = ApplyBody(zones, args.domain, body)
          /\ IF r = "ok" /\ branch = "Update" /\ body.update # <<>>
             THEN /\ Send(ApiReply(trace, r),
                          PutRequest([body EXCEPT !.update = <<>>,
                                        !.add = <<body.update[1].record>>]))
                  /\ UNCHANGED <<pc, errors, svc, err>>
             ELSE IF r = "ok"
             THEN /\ pc' = "returned"
                  /\ inflight' = 0
                  /\ trace' = ApiReply(trace, r)
                  /\ UNCHANGED <<errors, svc, err>>
             ELSE /\ Throw(makeRequestError(r))
                  /\ trace' = ApiReply(trace, r)
  /\ UNCHANGED <<token, args, ipToUse, branch, records, invocations, prev, candidate, verdict,
               logins, env, exitCode>>

\* the mutating request completes; the provider has applied the body unless
\* it answered with an error
MutateResponse(r) ==
  /\ pc = "mutate"
  /\ r \in {"neterr", "httperr", "ok", "notjson"}
  /\ trace' = ApiReply(trace, r)
  /\ LET body == trace[Len(trace)].body IN
     IF r \in {"neterr", "httperr"}
     THEN /\ Throw(makeRequestError(r))
          /\ UNCHANGED zones
     ELSE /\ Applicable(zones, args.domain, body)
          /\ zones' = ApplyBody(zones, args.domain, body)
          /\ IF r = "ok"
             THEN /\ pc' = "returned"
                  /\ inflight' = 0
                  /\ UNCHANGED <<errors, svc, err>>
             ELSE Throw(makeRequestError(r))
  /\ UNCHANGED <<token, args, ipToUse, branch, records, invocations, prev, candidate, verdict,
               logins, env, exitCode>>

Next ==
  \/ \E d \in Domains, sd \in Subdomains, newIp \in ExplicitIPs : Invoke(d, sd, newIp)
  \/ \E r \in ApiResponses : LoginResponse(r)
  \/ \E r \in CoreLookupResponses : LookupResponse(r)
  \/ \E r \in ApiResponses : QueryResponse(r)
  \/ \E r \in ApiResponses : MutateResponse(r)

Spec == Init /\ [][Next]_vars

\* ------------------------------------------------------------------------
\* main: the process from its start to its exit
\* ------------------------------------------------------------------------

InitMain ==
  /\ InitUpdater
  /\ candidate = <<>>
  /\ env \in Envs

\* main() runs to its first await: the check of the credentials, then
\* updateDNSRecord(process.env.DOMAIN, process.env.SUBDOMAIN)
MainStart ==
  /\ exitCode = Running
  /\ pc = "idle"
  /\ invocations = 0
  /\ IF EnvMissing(env.username) \/ EnvMissing(env.password)
     THEN /\ exitCode' = 1
          /\ UNCHANGED <<token, zones, pc, args, ipToUse, svc, errors, trace, inflight,
                         branch, err, records, invocations, prev, candidate, verdict,
                         logins, env>>
     ELSE Invoke(env.domain, env.subdomain, Undefined)

\* the process exits with status 0 whatever updateDNSRecord settled with
MainExit_AlwaysZero ==
  /\ exitCode = Running
  /\ pc \in {"returned", "thrown"}
  /\ exitCode' = 0
  /\ UNCHANGED <<token, zones, pc, args, ipToUse, svc, errors, trace, inflight,
                 branch, err, records, invocations, prev, candidate, verdict,
                 logins, env>>

\* updateDNSRecord has settled: the catch block of main calls process.exit(1),
\* a fulfilled call lets the process end with status 0
MainExit ==
  /\ exitCode = Running
  /\ pc \in {"returned", "thrown"}
  /\ exitCode' = IF pc = "thrown" THEN 1 ELSE 0
  /\ UNCHANGED <<token, zones, pc, args, ipToUse, svc, errors, trace, inflight,
                 branch, err, records, invocations, prev, candidate, verdict,
                 logins, env>>

NextMain ==
  \/ MainStart
  \/ \E r \in ApiResponses : LoginResponse(r)
  \/ \E r \in CoreLookupResponses : LookupResponse(r)
  \/ \E r \in ApiResponses : QueryResponse(r)
  \/ \E r \in ApiResponses : MutateResponse(r)
  \/ MainExit

SpecMain == InitMain /\ [][NextMain]_vars

\* ------------------------------------------------------------------------
\* The resolver under every lookup response, against two zone contents
\* ------------------------------------------------------------------------

ResolverZoneLists ==
  { <<OtherZone, MkZone(1, DOMAIN_NAME, <<>>)>>,
    <<OtherZone, MkZone(1, DOMAIN_NAME,
        <<MkRecord(FullName(SUBDOMAIN, DOMAIN_NAME), "A", Str(IP_A), 300, Undefined)>>)>> }

\* the newIp argument in the specification of the resolver
ResolverExplicitIPs == {Undefined, Str(IP_A), Str(IP_B)}

InitResolver ==
  /\ Init
  /\ zones \in ResolverZoneLists

NextResolver ==
  \/ \E newIp \in ResolverExplicitIPs : Invoke(DOMAIN_NAME, SUBDOMAIN, newIp)
  \/ \E r \in ApiResponses : LoginResponse(r)
  \/ \E r \in LookupResponses : LookupResponse(r)
  \/ \E r \in ApiResponses : QueryResponse(r)
  \/ \E r \in ApiResponses : MutateResponse(r)

SpecResolver == InitResolver /\ [][NextResolver]_vars

\* ------------------------------------------------------------------------
\* The updater when every request is eventually answered
\* ------------------------------------------------------------------------

\* the zone contents: the zone absent, empty, and holding the record
LiveZoneLists == ResolverZoneLists \cup { <<OtherZone>> }

\* the newIp argument: absent or given
LiveExplicitIPs == {Undefined, Str(IP_B)}

InitLive ==
  /\ Init
  /\ zones \in LiveZoneLists

\* fetch settles: the pending request is answered or fails
Respond ==
  \/ \E r \in ApiResponses : LoginResponse(r)
  \/ \E r \in CoreLookupResponses : LookupResponse(r)
  \/ \E r \in ApiResponses : QueryResponse(r)
  \/ \E r \in ApiResponses : MutateResponse(r)

NextLive ==
  \/ \E newIp \in LiveExplicitIPs : Invoke(DOMAIN_NAME, SUBDOMAIN, newIp)
  \/ Respond

\* no request stays pending for ever
SpecLive == InitLive /\ [][NextLive]_vars /\ WF_vars(Respond)

\* ------------------------------------------------------------------------
\* isValidIPv4 on its own, over strings built from tokens and dots
\* ------------------------------------------------------------------------

\* the tokens the candidate strings are built from
Tokens ==
  { <<"1">>, <<"0">>, <<"2","5","5">>, <<"2","5","6">>, <<"0","0","0","1">>,
    <<"a">>, <<>> }

\* the largest number of tokens of a candidate string
MaxTokens == 5

RECURSIVE Join(_)
\* the tokens of ts separated by dots
Join(ts) ==
  IF Len(ts) = 0 THEN <<>>
  ELSE IF Len(ts) = 1 THEN ts[1]
  ELSE ts[1] \o <<".">> \o Join(Tail(ts))

Candidates == { Join(ts) : ts \in UNION { [1..n -> Tokens] : n \in 1..MaxTokens } }

InitIPv4 ==
  /\ InitUpdater
  /\ env = FullEnv
  /\ zones = <<>>
  /\ candidate \in Candidates

\* this.isValidIPv4(candidate) is called
Validate ==
  /\ verdict = "none"
  /\ verdict' = IF isValidIPv4(candidate) THEN "true" ELSE "false"
  /\ UNCHANGED <<token, zones, pc, args, ipToUse, svc, errors, trace, inflight,
                 branch, err, records, invocations, prev, candidate,
                 logins, env, exitCode>>

NextIPv4 == Validate

SpecIPv4 == InitIPv4 /\ [][NextIPv4]_vars

\* ------------------------------------------------------------------------
\* Vocabulary of the properties
\* ------------------------------------------------------------------------

\* the lookup requests of a trace, in the order they were issued
Lookups(tr) == SelectSeq(tr, LAMBDA e : e.kind = "LOOKUP")

\* the mutating requests of a trace, in the order they were issued
Puts(tr) == SelectSeq(tr, LAMBDA e : e.kind = "PUT")

\* the zone query of the running invocation has been issued
ZoneQuerySent == \E k \in DOMAIN trace : trace[k].kind = "ZONES"

\* the zone query of the running invocation was answered with the zones
ZoneQueryAnswered ==
  \E k \in DOMAIN trace : trace[k].kind = "ZONES" /\ trace[k].resp.kind = "ok"

\* the string the extraction rule of service i takes from response r:
\* the ip member of a JSON document for services 1 and 3, the trimmed
\* plain text for service 2; Undefined when the response has no such part
Extracted(i, r) ==
  IF i = 2
  THEN IF r.kind = "text" THEN Str(trim(r.val.s)) ELSE Undefined
  ELSE IF r.kind = "jsonobj" THEN r.val ELSE Undefined

\* response r of service i yields a valid IPv4 address
YieldsAddress(i, r) ==
  /\ Extracted(i, r).t = "string"
  /\ isValidIPv4(Extracted(i, r).s)

RECURSIVE Denotes(_)
\* the integer a string of decimal digits denotes
Denotes(tok) ==
  IF tok = <<>> THEN 0
  ELSE 10 * Denotes(SubSeq(tok, 1, Len(tok) - 1)) + DigitVal(tok[Len(tok)])

\* tok is a decimal token denoting an integer in [0,255]
IsOctet(tok) ==
  /\ tok # <<>>
  /\ \A k \in DOMAIN tok : tok[k] \in Digits
  /\ Denotes(tok) \in 0..255

\* s consists of four dot-separated decimal tokens, each an octet
FourOctets(s) ==
  /\ Len(split(s)) = 4
  /\ \A k \in DOMAIN split(s) : IsOctet(split(s)[k])

\* r is an A record named `${subdomain}.${domain}` for the running invocation
Matching(r) ==
  r.name = FullName(args.subdomain, args.domain) /\ r.type = "A"

\* records[k] is the first matching record of the zone
FirstMatching(k) ==
  /\ k \in DOMAIN records
  /\ Matching(records[k])
  /\ \A j \in 1..(k - 1) : ~Matching(records[j])

\* the running invocation has found its zone and chosen its branch
Decided == branch # "none"

\* ------------------------------------------------------------------------
\* Properties of getPublicIP (SpecResolver)
\* ------------------------------------------------------------------------

\* C1: the lookup services are requested in list order, and a service whose
\* response yields a valid IPv4 address is the last one requested: its
\* address is the value getPublicIP returned, and no later service has
\* received a request (so when service 1 fails and service 2 succeeds,
\* service 2's address is returned and service 3 is never requested).
C1_FirstValidServiceWins ==
  LET ls == Lookups(trace) IN
  /\ \A j \in DOMAIN ls : ls[j].svc = j
  /\ \A j \in DOMAIN ls :
       YieldsAddress(j, ls[j].resp) =>
         /\ j = Len(ls)
         /\ pc \in {"query", "mutate", "returned", "thrown"}
         /\ ipToUse = Extracted(j, ls[j].resp)

\* service 1 failed, service 2 succeeded, and its address was returned
C1_Witness ==
  LET ls == Lookups(trace) IN
  /\ Len(ls) = 2
  /\ ls[1].resp.kind = "httperr"
  /\ YieldsAddress(2, ls[2].resp)
  /\ pc = "query"
  /\ ipToUse = Str(IP_B)

\* every service has been requested and none yielded a valid address
AllLookupsFailed ==
  LET ls == Lookups(trace) IN
  /\ Len(ls) = NumServices
  /\ \A j \in DOMAIN ls : ls[j].resp # Pending /\ ~YieldsAddress(j, ls[j].resp)

\* C2: when every lookup service has failed, the invocation has thrown the
\* aggregate error, whose detail is the failure message of service 1, then
\* of service 2, then of service 3: one message per service, in trial order.
C2_AggregateErrorListsEveryFailure ==
  LET ls == Lookups(trace) IN
  AllLookupsFailed =>
    /\ pc = "thrown"
    /\ err.text = "Failed to get public IP from all services. Errors: "
    /\ Len(err.detail) = NumServices
    /\ \A j \in 1..NumServices :
         err.detail[j] = Message(TryService(j, ls[j].resp).error)

\* the three services failed in three different ways
C2_Witness ==
  /\ AllLookupsFailed
  /\ pc = "thrown"
  /\ Len(err.detail) = 3
  /\ err.detail[1].text = "HTTP error! status: "
  /\ err.detail[2].text = "data.trim is not a function"
  /\ err.detail[3].text = "Invalid IP address format: "

\* C9: whenever getPublicIP has returned (the zone query was issued for an
\* invocation without explicit IP), the value it returned is a string of
\* four dot-separated decimal octets, each in [0,255].
C9_ResolvedIPIsValid ==
  (Falsy(args.newIp) /\ ZoneQuerySent) =>
    /\ ipToUse.t = "string"
    /\ FourOctets(ipToUse.s)

\* an address was resolved after a service had answered with an
\* out-of-range candidate
C9_Witness ==
  /\ Falsy(args.newIp)
  /\ ZoneQuerySent
  /\ \E k \in DOMAIN trace :
       trace[k].kind = "LOOKUP" /\ trace[k].resp.val = Str(IP_256)
  /\ ipToUse = Str(IP_A)

\* ------------------------------------------------------------------------
\* Properties of isValidIPv4 (SpecIPv4)
\* ------------------------------------------------------------------------

\* C8 as stated: isValidIPv4(s) is true exactly when s consists of four
\* dot-separated decimal tokens each denoting an integer in [0,255].
C8_Original ==
  verdict # "none" => (verdict = "true" <=> FourOctets(candidate))

\* C8: isValidIPv4(s) is true exactly when s consists of four dot-separated
\* tokens of one to three decimal digits, each denoting an integer in
\* [0,255]; "256.1.1.1", a string of three tokens and a string of five
\* tokens are invalid.
C8_ValidExactlyForShortOctets ==
  verdict # "none" =>
    /\ verdict = "true" <=>
         (FourOctets(candidate) /\ \A k \in DOMAIN split(candidate) : Len(split(candidate)[k]) <= 3)
    /\ candidate = Join(<<<<"2","5","6">>, <<"1">>, <<"1">>, <<"1">>>>) => verdict = "false"
    /\ Len(split(candidate)) \in {3, 5} => verdict = "false"

\* a string of four octets was accepted
C8_Witness ==
  /\ verdict = "true"
  /\ candidate = Join(<<<<"2","5","5">>, <<"0">>, <<"1">>, <<"1">>>>)

\* ------------------------------------------------------------------------
\* Properties of updateDNSRecord (Spec)
\* ------------------------------------------------------------------------

\* no mutating request was issued and the invocation completed
CompletedWithoutMutation ==
  /\ Puts(trace) = <<>>
  /\ pc = "returned"

\* C3 as stated: when the zone contains an A record named
\* `${subdomain}.${domain}` whose value equals the target IP, no mutating
\* request is issued and the invocation completes.
C3_Original ==
  (Decided /\ \E k \in DOMAIN records :
                 Matching(records[k]) /\ records[k].value = ipToUse)
    => CompletedWithoutMutation

\* C3: when the first A record named `${subdomain}.${domain}` in the zone's
\* record list has a value equal to the target IP, no mutating request is
\* issued and the invocation completes (NoOp).
C3_NoOpWhenFirstMatchIsCurrent ==
  (Decided /\ \E k \in DOMAIN records :
                 FirstMatching(k) /\ records[k].value = ipToUse)
    => (CompletedWithoutMutation /\ branch = "NoOp")

\* the invocation completed as a NoOp on a zone holding a second A record of
\* the same name with another value
C3_Witness ==
  /\ pc = "returned"
  /\ Puts(trace) = <<>>
  /\ \E k \in DOMAIN records : FirstMatching(k) /\ records[k].value = ipToUse
  /\ \E k \in DOMAIN records : Matching(records[k]) /\ records[k].value # ipToUse

\* exactly one mutating request was issued, an update of one record whose
\* replacement carries the target IP, with no add block
OneUpdateRequest ==
  /\ Len(Puts(trace)) = 1
  /\ LET b == Puts(trace)[1].body IN
       /\ b.add = <<>>
       /\ Len(b.update) = 1
       /\ DOMAIN b.update[1] = {"original_record", "record"}
       /\ b.update[1].record.value = ipToUse

\* C4 as stated: when the zone contains an A record named
\* `${subdomain}.${domain}` whose value differs from the target IP, exactly
\* one mutating request is issued, an update carrying the target IP.
C4_Original ==
  (Decided /\ \E k \in DOMAIN records :
                 Matching(records[k]) /\ records[k].value # ipToUse)
    => OneUpdateRequest

\* C4: when the first A record named `${subdomain}.${domain}` in the zone's
\* record list has a value that differs from the target IP, exactly one
\* mutating request is issued; its body has one records.update entry with an
\* original_record block and a record block, record.value is the target IP,
\* and there is no add block.
C4_UpdateWhenFirstMatchDiffers ==
  (Decided /\ \E k \in DOMAIN records :
                 FirstMatching(k) /\ records[k].value # ipToUse)
    => (OneUpdateRequest /\ branch = "Update")

\* an update was issued for a record holding another address
C4_Witness ==
  /\ pc = "mutate"
  /\ branch = "Update"
  /\ \E k \in DOMAIN records :
       FirstMatching(k) /\ records[k].value = Str(IP_B) /\ ipToUse = Str(IP_A)
  /\ Len(Puts(trace)) = 1

\* C5: when the zone contains no A record named `${subdomain}.${domain}`,
\* exactly one mutating request is issued; its body has one records.add
\* entry with name = subdomain, type = A, value = target IP and ttl = 900,
\* and no update block.
C5_CreateWhenNoMatch ==
  (Decided /\ \A k \in DOMAIN records : ~Matching(records[k]))
    => /\ Len(Puts(trace)) = 1
       /\ LET b == Puts(trace)[1].body IN
            /\ b.update = <<>>
            /\ Len(b.add) = 1
            /\ b.add[1].name = args.subdomain
            /\ b.add[1].type = "A"
            /\ b.add[1].value = ipToUse
            /\ b.add[1].ttl = 900

\* a record was created in a zone that holds records of the same name with
\* another type, or of another name
C5_Witness ==
  /\ Decided
  /\ records # <<>>
  /\ \A k \in DOMAIN records : ~Matching(records[k])
  /\ pc = "returned"
  /\ Len(Puts(trace)) = 1

C7_AtMostOneMutation == Len(Puts(trace)) <= 1

\* the one mutating request of an invocation was answered with an error
C7_Witness ==
  /\ pc = "thrown"
  /\ Len(Puts(trace)) = 1
  /\ trace[Len(trace)].resp.kind = "httperr"

\* C10: when the zone query returns no zone named as the requested domain,
\* the invocation fails with a zone-not-found error of its own and issues no
\* mutating request.
C10_ZoneNotFoundIsDistinctError ==
  (ZoneQueryAnswered /\ \A z \in DOMAIN zones : zones[z].name # args.domain)
  => /\ pc = "thrown"
     /\ err.name = "ZoneNotFoundError"
     /\ Puts(trace) = <<>>

\* ------------------------------------------------------------------------
\* Properties of the explicit IP argument (Spec)
\* ------------------------------------------------------------------------

\* C11: when an explicit IP is supplied, no lookup service is requested, and
\* the target IP of the comparison and of every mutation payload is that
\* argument as given; when none is supplied, the zone query is issued only
\* after a lookup service was requested.
C11_ExplicitIPUsedVerbatim ==
  /\ ~Falsy(args.newIp) =>
       /\ Lookups(trace) = <<>>
       /\ ZoneQuerySent => ipToUse = args.newIp
       /\ \A k \in DOMAIN trace :
            /\ \A a \in DOMAIN trace[k].body.add :
                 trace[k].body.add[a].value = args.newIp
            /\ \A u \in DOMAIN trace[k].body.update :
                 trace[k].body.update[u].record.value = args.newIp
       /\ Decided =>
            (branch = "NoOp" <=>
               \E k \in DOMAIN records : FirstMatching(k) /\ records[k].value = args.newIp)
  /\ (Falsy(args.newIp) /\ ZoneQuerySent) => Lookups(trace) # <<>>

\* a record was created with an explicit argument that is no IPv4 address
C11_Witness ==
  /\ args.newIp = Str(GARBAGE)
  /\ pc = "returned"
  /\ branch = "Create"
  /\ Len(Puts(trace)) = 1
  /\ Puts(trace)[1].body.add[1].value = Str(GARBAGE)
  /\ Lookups(trace) = <<>>

\* ------------------------------------------------------------------------
\* Properties of the login (Spec)
\* ------------------------------------------------------------------------

\* the login requests of a trace
Logins(tr) == SelectSeq(tr, LAMBDA e : e.kind = "LOGIN")

\* C12 as stated: across any sequence of invocations on one updater the
\* login request is issued at most once.
C12_Original == logins <= 1

\* C12: within one invocation the login request is issued at most once and
\* before every other request; a login request is issued only when no token
\* is held, so once a login has stored a token no later invocation on the
\* updater logs in again (after a login that failed or returned no token,
\* the next invocation logs in again).
C12_LoginOnlyWithoutToken ==
  /\ [](/\ Len(Logins(trace)) <= 1
        /\ \A k \in DOMAIN trace : trace[k].kind = "LOGIN" => k = 1)
  /\ [][(pc # "login" /\ pc' = "login") =>
          (Falsy(token) /\ logins' = logins + 1 /\ trace' = <<LoginRequest>>)]_vars
  /\ [][logins' # logins => (pc # "login" /\ pc' = "login")]_vars

\* the second invocation completed on the token of the first, without login
C12_Witness ==
  /\ invocations = 2
  /\ logins = 1
  /\ token = TOKEN
  /\ Logins(trace) = <<>>
  /\ pc = "returned"

\* ------------------------------------------------------------------------
\* Properties of the pipeline (Spec)
\* ------------------------------------------------------------------------

\* request e of the provider's API was answered with a failure
ApiFailed(e) ==
  /\ e.kind \in {"LOGIN", "ZONES", "PUT"}
  /\ e.resp.kind \in {"neterr", "httperr", "nodata", "notjson"}

\* C13: a failed step is the last step of its invocation and its error is
\* thrown to the caller: after a failed login, zone query or mutation no
\* further request is issued; after the failure of every lookup service no
\* zone query and no mutation are issued; after a zone query that is
\* answered without the requested zone no mutation is issued.
C13_FailureAbortsRemainingSteps ==
  /\ \A k \in DOMAIN trace :
       ApiFailed(trace[k]) =>
         /\ k = Len(trace)
         /\ pc = "thrown"
         /\ err # NoError
  /\ AllLookupsFailed =>
       /\ ~ZoneQuerySent
       /\ Puts(trace) = <<>>
       /\ pc = "thrown"
       /\ err # NoError
  /\ (ZoneQueryAnswered /\ \A z \in DOMAIN zones : zones[z].name # args.domain) =>
       /\ Puts(trace) = <<>>
       /\ pc = "thrown"
       /\ err # NoError

\* the invocation was thrown out of by a failed zone query after a
\* successful login and a resolved address
C13_Witness ==
  /\ pc = "thrown"
  /\ Len(trace) >= 3
  /\ trace[1].kind = "LOGIN" /\ trace[1].resp.kind = "ok"
  /\ trace[Len(trace)].kind = "ZONES"
  /\ trace[Len(trace)].resp.kind = "httperr"
  /\ Lookups(trace) # <<>>
  /\ err.text = "API request failed: "

\* ------------------------------------------------------------------------
\* Properties of main (SpecMain)
\* ------------------------------------------------------------------------

\* one of the four configuration values is not set
ConfigIncomplete ==
  \/ EnvMissing(env.username) \/ EnvMissing(env.password)
  \/ EnvMissing(env.domain) \/ EnvMissing(env.subdomain)

\* C14: when one of the four configuration values (username, password,
\* domain, subdomain) is missing, the process issues no network request
\* and does not exit with status 0.
C14_MissingConfigStopsBeforeAnyRequest ==
  ConfigIncomplete =>
    /\ trace = <<>>
    /\ logins = 0
    /\ exitCode # 0

\* C15: the process exits with a non-zero status whenever the invocation
\* main started has thrown (and such an exit is then the next step), and
\* it exits with status 0 only after that invocation returned from the
\* NoOp, the Create or the Update branch.
C15_ExitCodeReflectsOutcome ==
  /\ (pc = "thrown" /\ exitCode # Running) => exitCode = 1
  /\ (pc = "thrown" /\ exitCode = Running) => ENABLED MainExit
  /\ exitCode = 0 =>
       /\ pc = "returned"
       /\ branch \in {"NoOp", "Create", "Update"}
       /\ err = NoError
  /\ exitCode \in {Running, 0, 1}

\* the process has exited with status 1 after every lookup service failed
C15_Witness ==
  /\ exitCode = 1
  /\ pc = "thrown"
  /\ err = AllServicesFailed(err.detail) /\ Len(err.detail) = NumServices
  /\ Len(Lookups(trace)) = NumServices

\* ------------------------------------------------------------------------
\* Properties of the resolver's loop (SpecResolver)
\* ------------------------------------------------------------------------

\* lookup j of the running invocation was answered and gave no valid address
LookupFailed(j) ==
  LET ls == Lookups(trace) IN
  /\ ls[j].resp # Pending
  /\ ~YieldsAddress(j, ls[j].resp)

\* C16: the lookups go to the services in order; a lookup that failed
\* while a later service exists is followed by the lookup of the next
\* service; while the loop runs, errors holds exactly one entry per failed
\* service, in order; and getPublicIP throws only after every service failed.
C16_SingleFailureIsRecordedAndSkipped ==
  LET ls == Lookups(trace) IN
  /\ \A j \in DOMAIN ls : ls[j].svc = j
  /\ \A j \in DOMAIN ls : (LookupFailed(j) /\ j < NumServices) => Len(ls) >= j + 1
  /\ pc = "lookup" =>
       /\ Len(ls) = svc
       /\ Len(errors) = svc - 1
       /\ \A j \in 1..(svc - 1) :
            /\ LookupFailed(j)
            /\ errors[j] # NoError
            /\ errors[j] = TryService(j, ls[j].resp).error
  /\ (pc = "thrown" /\ ls # <<>> /\ ~ZoneQuerySent) => AllLookupsFailed

\* the third service is being asked after the first one returned a string
\* that is no address and the request to the second one was rejected
C16_Witness ==
  /\ pc = "lookup"
  /\ svc = 3
  /\ Len(errors) = 2
  /\ errors[1].text = "Invalid IP address format: "
  /\ errors[2].text = "fetch failed"
  /\ Lookups(trace)[1].resp.kind = "jsonobj"
  /\ Lookups(trace)[2].resp.kind = "neterr"
  /\ Lookups(trace)[3].resp = Pending

\* ------------------------------------------------------------------------
\* Properties of the request sequence (Spec)
\* ------------------------------------------------------------------------

\* the number of requests of the running invocation to endpoint kind
\* (and, for lookups, to service i)
Requests(kind, i) ==
  Cardinality({k \in DOMAIN trace : trace[k].kind = kind /\ trace[k].svc = i})

\* C17: within one invocation every lookup service and each of the login,
\* zone-query and zone-mutate endpoints receives at most one request, at
\* most one request is awaiting its response, and every request but the
\* last one issued has been answered.
C17_NoRetryAndStrictlySequential ==
  /\ \A i \in 1..NumServices : Requests("LOOKUP", i) <= 1
  /\ \A kind \in {"LOGIN", "ZONES", "PUT"} : Requests(kind, 0) <= 1
  /\ \A k \in DOMAIN trace :
       /\ trace[k].kind \in {"LOGIN", "LOOKUP", "ZONES", "PUT"}
       /\ trace[k].svc \in (IF trace[k].kind = "LOOKUP" THEN 1..NumServices ELSE {0})
       /\ k < Len(trace) => trace[k].resp # Pending
  /\ inflight <= 1
  /\ inflight = 1 <=> (trace # <<>> /\ trace[Len(trace)].resp = Pending)
  /\ inflight = 1 <=> pc \in {"login", "lookup", "query", "mutate"}

\* an invocation that went through the login, the three lookups, the zone
\* query and the mutation, failures of two lookup services included
C17_Witness ==
  /\ pc = "returned"
  /\ Len(trace) = NumServices + 3
  /\ trace[2].resp.kind = "text"
  /\ trace[3].resp.kind = "jsonobj"
  /\ trace[Len(trace)].kind = "PUT"
  /\ trace[Len(trace)].resp.kind = "ok"

\* ------------------------------------------------------------------------
\* Properties of the update payload (Spec)
\* ------------------------------------------------------------------------

\* C18: in every update request the original_record block is a snapshot of
\* the record found: its value is that record's value and not the target
\* IP, its prio is that record's prio, its ttl is that record's ttl, or 900
\* only when the record has no ttl; the record block has the same ttl.
C18_OriginalRecordIsSnapshot ==
  \A p \in DOMAIN Puts(trace) : \A u \in DOMAIN Puts(trace)[p].body.update :
    \A k \in DOMAIN records :
      FirstMatching(k) =>
        LET orig == Puts(trace)[p].body.update[u].original_record
            repl == Puts(trace)[p].body.update[u].record
        IN  /\ orig.value = records[k].value
            /\ orig.value # ipToUse
            /\ orig.prio = records[k].prio
            /\ orig.ttl = (IF records[k].ttl = NoTtl THEN 900 ELSE records[k].ttl)
            /\ repl.ttl = orig.ttl

\* ------------------------------------------------------------------------
\* Properties of the decision (Spec)
\* ------------------------------------------------------------------------

\* C19: the branch is decided by the records of type A named
\* `${subdomain}.${domain}` alone: without such a record the branch is
\* Create, whatever other records the zone holds; with one or several, the
\* branch is NoOp or Update according to the value of a single one of
\* them; and at most one mutating request is issued.
C19_DecisionOnExactARecordOnly ==
  LET ms == SelectSeq(records, Matching) IN
  /\ Decided =>
       /\ ms = <<>> => branch = "Create"
       /\ ms # <<>> =>
            \E k \in DOMAIN ms :
              branch = (IF ms[k].value = ipToUse THEN "NoOp" ELSE "Update")
  /\ Len(Puts(trace)) <= 1

\* a Create for a zone that holds an AAAA record of the same name with the
\* target IP as its value and an A record of another name
C19_Witness ==
  /\ pc = "returned"
  /\ branch = "Create"
  /\ Len(Puts(trace)) = 1
  /\ \E j, k \in DOMAIN records :
       /\ records[j].name = FullName(args.subdomain, args.domain)
       /\ records[j].type = "AAAA"
       /\ records[j].value = ipToUse
       /\ records[k].name # FullName(args.subdomain, args.domain)
       /\ records[k].type = "A"

\* ------------------------------------------------------------------------
\* Termination (SpecLive)
\* ------------------------------------------------------------------------

\* updateDNSRecord is waiting for the answer to a request
Awaiting == pc \in {"login", "lookup", "query", "mutate"}

\* updateDNSRecord has settled: fulfilled or rejected
Settled == pc \in {"returned", "thrown"}

\* C20: when every request is eventually answered, every invocation of
\* updateDNSRecord that is under way eventually returns or throws, and at
\* every moment it has issued at most one login request, at most one
\* request per lookup service, at most one zone query and at most one
\* mutating request.
C20_EveryInvocationTerminates ==
  /\ [](/\ Requests("LOGIN", 0) <= 1
        /\ \A i \in 1..NumServices : Requests("LOOKUP", i) <= 1
        /\ Requests("ZONES", 0) <= 1
        /\ Requests("PUT", 0) <= 1
        /\ Len(trace) <= NumServices + 3)
  /\ Awaiting ~> Settled

\* the second invocation has returned after two lookups, the zone query
\* and an update
C20_Witness ==
  /\ invocations = 2
  /\ pc = "returned"
  /\ branch = "Update"
  /\ Len(Lookups(trace)) = 2
  /\ Len(Puts(trace)) = 1
  /\ trace[Len(trace)].resp.kind = "ok"

====
